---- MODULE Spec2Model ----
(***************************************************************************)
(* Currency exchange-rate engine of subtracker: the provider registry      *)
(* (CurrencyProviderFactory), the provider base behaviour                  *)
(* (BaseCurrencyProvider: cache, retry, timeout), the ExchangeRate-API     *)
(* provider and the facade (currency.service.ts).                          *)
(*                                                                         *)
(* Asynchronous functions are modelled as calls that advance from one      *)
(* await to the next in one atomic step.                                   *)
(***************************************************************************)
EXTENDS Integers, Sequences, FiniteSets, TLC

\* ------------------------------------------------------------------------
\* Bounds of the model
\* ------------------------------------------------------------------------
\* Date.now() advances from 0 up to MaxTime
MaxTime == 3
\* config.maxRetries of every provider instance
maxRetries == 1
\* config.cacheTtl of every provider instance, in clock ticks
cacheTtl == 2
\* config.initialRetryDelay and config.maxRetryDelay of every provider
\* instance, in units of delay
initialRetryDelay == 2
maxRetryDelay == 3
\* The jitter Math.random() * 1000 is below JitterLimit units of delay
JitterLimit == 3

\* ------------------------------------------------------------------------
\* Values
\* ------------------------------------------------------------------------
NULL == "null"

\* ExchangeRateProvider.EXCHANGE_RATE_API, the only member of the enum
EXCHANGE_RATE_API == "exchangerate-api"

\* const DEFAULT_PROVIDER
DEFAULT_PROVIDER == EXCHANGE_RATE_API

\* Identities under which a provider can be registered: the enum member and
\* two identities the factory does not recognise (it accepts any string
\* cast to ExchangeRateProvider).
Identities == {"exchangerate-api", "fixer", "openrates"}

\* Callers that can have a call in flight; the specifications below let
\* the callers of Callers call, one call at a time each
CallIds == {1, 2}
Callers == {1}

\* Currency codes used by the requests; "XXX" is not served by the API
Currencies == {"USD", "EUR", "XXX"}

\* conversion_rates of a successful API response
ConversionRates == [c \in {"USD", "EUR"} |-> IF c = "USD" THEN 1 ELSE 2]

\* Position of a string in the order Array.prototype.sort() uses
CodeRank(s) ==
    CASE s = "EUR" -> 1
      [] s = "USD" -> 2
      [] s = "XXX" -> 3
      [] OTHER -> 4

\* `symbols` arguments: absent (undefined) or an array of currency codes
NoSymbols == <<"undefined">>
SymbolArgs == {NoSymbols, <<"EUR">>, <<"XXX">>}

\* `symbols` arguments that list the same codes in different orders, next
\* to the absent one
OrderedSymbolArgs == {NoSymbols, <<"EUR", "USD">>, <<"USD", "EUR">>}

\* `configs` arguments of initializeCurrencyService: the entries of the
\* object in key order, each an identity and whether its config carries an
\* apiKey; NoConfigs stands for a call that has no such argument
NoConfigs == <<[id |-> NULL, apiKey |-> FALSE]>>

ConfigEntries == [id : Identities, apiKey : BOOLEAN]

ConfigMaps ==
    {<<>>} \cup {<<e>> : e \in ConfigEntries}
           \cup {m \in {<<e, f>> : e \in ConfigEntries, f \in ConfigEntries} :
                    m[1].id # m[2].id}

\* Amounts passed to convertCurrency
Amounts == {0, 3}

\* What one fetch attempt can end with: a parsed success, the timer of
\* executeWithTimeout firing first, fetch() rejecting, a non-2xx status, or
\* a body with result = 'error' and the given error_type.
ApiErrorTypes == {"unsupported-code", "malformed-request", "invalid-key",
                  "inactive-account", "quota-reached", "unknown_error"}
NetOutcomes == {"ok", "timeout", "fetch-failed", "http-error"} \cup ApiErrorTypes

\* ------------------------------------------------------------------------
\* Errors (error.service.ts, currency.model.ts)
\* ------------------------------------------------------------------------
\* An error value: kind "Error" is an instance of Error, kind "AppError" a
\* plain object built by createError. by/attempt identify the fetch attempt
\* the object was created for.
createError(type, code, by, attempt) ==
    [kind |-> "AppError", type |-> type, code |-> code, name |-> "none",
     by |-> by, attempt |-> attempt]

NoError == [kind |-> "none", type |-> "none", code |-> "none", name |-> "none",
            by |-> NULL, attempt |-> 0]

\* The TypeError fetch() rejects with
FetchTypeError(by, attempt) ==
    [kind |-> "Error", type |-> "none", code |-> "none", name |-> "TypeError",
     by |-> by, attempt |-> attempt]

\* BaseCurrencyProvider.handleProviderError
handleProviderError(error) ==
    IF error.kind = "Error"
    THEN error
    ELSE \* new Error(appError.message) with name = appError.type; the code
         \* and the original error are not copied
         [kind |-> "Error", type |-> "none", code |-> "none", name |-> "network",
          by |-> error.by, attempt |-> error.attempt]

\* ExchangeRateApiProvider.handleExchangeRateApiError
handleExchangeRateApiError(errorType, by, attempt) ==
    CASE errorType = "unsupported-code" ->
            createError("validation", "unsupported_currency", by, attempt)
      [] errorType = "malformed-request" ->
            createError("validation", "provider_error", by, attempt)
      [] errorType = "invalid-key" ->
            createError("authentication", "invalid_api_key", by, attempt)
      [] errorType = "inactive-account" ->
            createError("authentication", "invalid_api_key", by, attempt)
      [] errorType = "quota-reached" ->
            createError("permission", "rate_limit_exceeded", by, attempt)
      [] OTHER ->
            createError("unexpected", "provider_error", by, attempt)

\* BaseCurrencyProvider.isClientError
isClientError(error) ==
    /\ error.code # "none"
    /\ error.code \in {"invalid_api_key", "invalid_base_currency", "unsupported_currency"}

\* ------------------------------------------------------------------------
\* State
\* ------------------------------------------------------------------------
VARIABLES
    providers,       \* CurrencyProviderFactory.providers: its keys, in insertion order
    activeProvider,  \* CurrencyProviderFactory.activeProvider
    storage,         \* localStorage['activeCurrencyProvider']
    rateCache,       \* rateCache of the instance registered under each identity
    now,             \* Date.now()
    calls            \* the asynchronous calls in flight, one record per caller

vars == <<providers, activeProvider, storage, rateCache, now, calls>>

\* Elements of a sequence
Range(s) == {s[i] : i \in 1..Len(s)}

\* Array.prototype.filter
RECURSIVE Filter(_, _)
Filter(s, drop) ==
    IF s = <<>> THEN <<>>
    ELSE IF Head(s) = drop THEN Filter(Tail(s), drop)
         ELSE <<Head(s)>> \o Filter(Tail(s), drop)

\* ------------------------------------------------------------------------
\* Provider base behaviour (BaseCurrencyProvider) and ExchangeRateApiProvider
\* ------------------------------------------------------------------------
\* The `provider` field of the instance the factory registers under `id`:
\* both branches of initializeProvider's switch build an
\* ExchangeRateApiProvider, whose provider is EXCHANGE_RATE_API.
instanceProvider(id) == EXCHANGE_RATE_API

\* Array.prototype.sort() on currency codes (insertion sort by CodeRank)
RECURSIVE Insert(_, _)
Insert(x, s) ==
    IF s = <<>> THEN <<x>>
    ELSE IF CodeRank(x) < CodeRank(Head(s)) THEN <<x>> \o s
         ELSE <<Head(s)>> \o Insert(x, Tail(s))

RECURSIVE Sort(_)
Sort(s) == IF s = <<>> THEN <<>> ELSE Insert(Head(s), Sort(Tail(s)))

\* createCacheKey joining the symbols in the order given
createCacheKeyUnsorted(id, base, symbols) ==
    <<instanceProvider(id), base>>
        \o (IF symbols = NoSymbols THEN <<"all">> ELSE symbols)

\* BaseCurrencyProvider.createCacheKey: provider_base_symbols, the parts
\* kept apart as a tuple
createCacheKey(id, base, symbols) ==
    <<instanceProvider(id), base>>
        \o (IF symbols = NoSymbols THEN <<"all">> ELSE Sort(symbols))

NoResult == [base |-> "none"]

\* getCachedRates serving an entry whose age equals its TTL
getCachedRatesLate(cache, cacheKey, t) ==
    IF cacheKey \in DOMAIN cache
    THEN IF t - cache[cacheKey].timestamp <= cache[cacheKey].ttl
         THEN [data |-> cache[cacheKey].data, cache |-> cache]
         ELSE [data |-> NoResult,
               cache |-> [k \in (DOMAIN cache) \ {cacheKey} |-> cache[k]]]
    ELSE [data |-> NoResult, cache |-> cache]

\* getCachedRates leaving an expired entry in the map
getCachedRatesKeepsExpired(cache, cacheKey, t) ==
    IF cacheKey \in DOMAIN cache
    THEN IF t - cache[cacheKey].timestamp < cache[cacheKey].ttl
         THEN [data |-> cache[cacheKey].data, cache |-> cache]
         ELSE [data |-> NoResult, cache |-> cache]
    ELSE [data |-> NoResult, cache |-> cache]

\* BaseCurrencyProvider.getCachedRates on the cache map `cache` at time t:
\* the data returned (NoResult for null) and the map afterwards
getCachedRates(cache, cacheKey, t) ==
    IF cacheKey \in DOMAIN cache
    THEN IF t - cache[cacheKey].timestamp < cache[cacheKey].ttl
         THEN [data |-> cache[cacheKey].data, cache |-> cache]
         ELSE [data |-> NoResult,
               cache |-> [k \in (DOMAIN cache) \ {cacheKey} |-> cache[k]]]
    ELSE [data |-> NoResult, cache |-> cache]

\* cacheRates keeping the entry a key already has
cacheRatesKeepsFirst(cache, cacheKey, data, t) ==
    IF cacheKey \in DOMAIN cache THEN cache
    ELSE (cacheKey :> [data |-> data, timestamp |-> t, ttl |-> cacheTtl]) @@ cache

\* BaseCurrencyProvider.cacheRates at time t
cacheRates(cache, cacheKey, data, t) ==
    (cacheKey :> [data |-> data, timestamp |-> t, ttl |-> cacheTtl]) @@ cache

\* The ExchangeRateResult ExchangeRateApiProvider.fetchLatestRates builds
\* from a successful response received at time t
FetchResult(id, base, symbols, t) ==
    LET wanted == IF symbols # NoSymbols /\ Len(symbols) > 0
                  THEN Range(symbols) \cap DOMAIN ConversionRates
                  ELSE DOMAIN ConversionRates
    IN [base |-> base, date |-> t,
        rates |-> [s \in wanted |-> ConversionRates[s]],
        provider |-> instanceProvider(id), timestamp |-> t]

\* The error executeWithRetry catches when one attempt ends with outcome o:
\* the rejection of the timer of executeWithTimeout, or what the catch block
\* of fetchLatestRates rethrows
AttemptError(o, by, attempt) ==
    CASE o = "timeout" -> createError("network", "network_error", by, attempt)
      [] o = "fetch-failed" -> handleProviderError(FetchTypeError(by, attempt))
      [] o = "http-error" ->
            handleProviderError(createError("network", "provider_error", by, attempt))
      [] OTHER -> handleProviderError(handleExchangeRateApiError(o, by, attempt))

\* Values of the jitter
Jitters == 0 .. (JitterLimit - 1)

Min(a, b) == IF a <= b THEN a ELSE b

\* calculateBackoffDelay(attempt) when Math.random() * 1000 gives jitter
calculateBackoffDelay(attempt, jitter) ==
    Min(initialRetryDelay * 2^attempt + jitter, maxRetryDelay)

\* executeWithRetry allowing one attempt too many
RetryGivesUpLate(error, attempt) ==
    isClientError(error) \/ attempt > maxRetries

\* executeWithRetry after a failed attempt: TRUE when it rethrows, FALSE when
\* it waits and tries again
RetryGivesUp(error, attempt) ==
    isClientError(error) \/ attempt >= maxRetries

\* BaseCurrencyProvider.convertCurrency once the rates are known: the
\* conversion result, or the error it throws
ConvertWithRates(id, amount, from, to, rates, attempt) ==
    IF to \in DOMAIN rates.rates /\ rates.rates[to] # 0
    THEN [ok |-> TRUE,
          value |-> [amount |-> amount, from |-> from, to |-> to,
                     convertedAmount |-> amount * rates.rates[to],
                     rate |-> rates.rates[to], date |-> rates.date,
                     provider |-> instanceProvider(id)],
          error |-> NoError]
    ELSE [ok |-> FALSE, value |-> NoResult,
          error |-> handleProviderError(
                        createError("validation", "unsupported_currency", id, attempt))]

\* BaseCurrencyProvider.convertCurrency when from = to
IdentityConversion(id, amount, from, to, t) ==
    [amount |-> amount, from |-> from, to |-> to, convertedAmount |-> amount,
     rate |-> 1, date |-> t, provider |-> instanceProvider(id)]

\* ------------------------------------------------------------------------
\* Calls in flight
\* ------------------------------------------------------------------------
NoOutcome == [status |-> "none", value |-> NoResult, code |-> "none", cause |-> NoError]

\* op: the function called; pc: where it is suspended ("fetch": awaiting
\* the race of executeWithTimeout, "wait": awaiting the backoff timer);
\* override/base/symbols/amount/to: its arguments; phase: "primary" in the
\* try block of the facade, "alt" in the loop of its catch block;
\* prov: the provider being called; rest: the providers the loop has left;
\* attempt: the loop variable of executeWithRetry; nfetch: fetch() calls made
\* by the current getLatestRates; stale: the instance being called has been
\* replaced in the registry; err: `error` of the facade's catch block;
\* tried: the providers called so far; resp: how the last attempt on prov
\* ended; avail: getAvailableProviders() as the catch block of the facade or
\* autoSelectProvider read it; seen: what getCachedRates found on prov
\* ("hit", "expired" or "absent"); out: what the call returned or threw;
\* given: the symbols argument as the caller passed it;
\* delay: the delay of the backoff wait in progress, 0 when there is none;
\* configs: the argument of initializeCurrencyService when the call is one
\* of it (op is then "initialize", or "autoselect" once it awaits
\* autoSelectProvider, whose result is all it has left to wait for);
\* late: the fetches of this caller, each a provider and an attempt number,
\* that lost the race of executeWithTimeout to the timer and have not
\* settled yet (recorded where the timer step is TimerFires).
IdleCall ==
    [op |-> "none", pc |-> "idle", override |-> NULL, base |-> "none",
     symbols |-> NoSymbols, amount |-> 0, to |-> "none", phase |-> "primary",
     configs |-> NoConfigs, late |-> {}, given |-> NoSymbols, delay |-> 0,
     prov |-> NULL, rest |-> <<>>, attempt |-> 0, nfetch |-> 0, stale |-> FALSE,
     err |-> NoError, tried |-> <<>>, resp |-> "none", avail |-> <<>>,
     seen |-> "none", out |-> NoOutcome]

\* The part of the state a call changes: the caches, the active provider
\* and the stored preference
World == [cache |-> rateCache, active |-> activeProvider, storage |-> storage]

Returned(t, value) ==
    [t EXCEPT !.pc = "done",
              !.out = [status |-> "ok", value |-> value, code |-> "none",
                       cause |-> NoError]]

\* throw createError(ErrorType.NETWORK, ..., 'currency_service_unavailable', error)
Unavailable(t, error) ==
    [t EXCEPT !.pc = "done",
              !.out = [status |-> "fail", value |-> NoResult,
                       code |-> "currency_service_unavailable", cause |-> error]]

\* throw new Error(`Provider ${provider} has not been initialized`)
NotInitialized(t) ==
    [t EXCEPT !.pc = "done",
              !.out = [status |-> "fail", value |-> NoResult,
                       code |-> "not_initialized", cause |-> NoError]]

\* Arguments of the getLatestRates the call makes on a provider
RatesBase(t) == IF t.op = "autoselect" THEN "USD" ELSE t.base

RatesSymbols(t) ==
    CASE t.op = "convert" -> <<t.to>>
      [] t.op = "autoselect" -> NoSymbols
      [] OTHER -> t.symbols

\* autoSelectProvider returning true without activating the provider
SucceedWithoutActivation(t, value, w) ==
    CASE t.op = "autoselect" ->
            [t |-> Returned(t, [ret |-> TRUE]), w |-> w]
      [] t.op # "autoselect" /\ t.phase = "alt" ->
            [t |-> Returned(t, value),
             w |-> [w EXCEPT !.active = t.prov, !.storage = t.prov]]
      [] OTHER -> [t |-> Returned(t, value), w |-> w]

\* The facade switching to the alternate that succeeded only when no other
\* call has switched the active provider meanwhile
SucceedFirstSwitchWins(t, value, w) ==
    CASE t.op = "autoselect" ->
            [t |-> Returned(t, [ret |-> TRUE]), w |-> [w EXCEPT !.active = t.prov]]
      [] t.op # "autoselect" /\ t.phase = "alt" ->
            [t |-> Returned(t, value),
             w |-> IF w.active = t.tried[1]
                   THEN [w EXCEPT !.active = t.prov, !.storage = t.prov]
                   ELSE w]
      [] OTHER -> [t |-> Returned(t, value), w |-> w]

\* The provider call of t succeeded with `value`: the facade returns it (in
\* the catch block after setActiveCurrencyProvider), autoSelectProvider
\* calls setActiveProvider and returns true.
Succeed(t, value, w) ==
    CASE t.op = "autoselect" ->
            [t |-> Returned(t, [ret |-> TRUE]), w |-> [w EXCEPT !.active = t.prov]]
      [] t.op # "autoselect" /\ t.phase = "alt" ->
            [t |-> Returned(t, value),
             w |-> [w EXCEPT !.active = t.prov, !.storage = t.prov]]
      [] OTHER -> [t |-> Returned(t, value), w |-> w]

RECURSIVE Iterate(_, _, _)
RECURSIVE Failed(_, _, _)

\* getLatestRates of the provider t.prov has the rates `data` (from its cache
\* or from the network): what the provider call and then its caller do
AfterRates(t, data, w) ==
    CASE t.op = "convert" ->
            LET r == ConvertWithRates(t.prov, t.amount, t.base, t.to, data, t.attempt)
            IN IF r.ok THEN Succeed(t, r.value, w) ELSE Failed(t, r.error, w)
      [] t.op = "autoselect" -> Succeed(t, [ret |-> TRUE], w)
      [] OTHER -> Succeed(t, data, w)

\* convertCurrency without the shortcut for from = to
BeginWithoutShortcut(t, w) ==
    LET cacheKey == createCacheKey(t.prov, RatesBase(t), RatesSymbols(t))
        cached == getCachedRates(w.cache[t.prov], cacheKey, now)
        w1 == [w EXCEPT !.cache[t.prov] = cached.cache]
        seen == IF cached.data # NoResult THEN "hit"
                ELSE IF cacheKey \in DOMAIN w.cache[t.prov] THEN "expired"
                     ELSE "absent"
        t1 == [t EXCEPT !.seen = seen,
                        !.symbols = IF t.op = "rates" /\ @ # NoSymbols
                                    THEN Sort(@) ELSE @]
    IN IF cached.data # NoResult
       THEN AfterRates(t1, cached.data, w1)
       ELSE [t |-> [t1 EXCEPT !.pc = "fetch", !.nfetch = 1], w |-> w1]

\* getLatestRates looking the key up in the caches of all instances, as if
\* rateCache were one map shared by them
BeginSharedCache(t, w) ==
    IF t.op = "convert" /\ t.base = t.to
    THEN Succeed(t, IdentityConversion(t.prov, t.amount, t.base, t.to, now), w)
    ELSE LET cacheKey == createCacheKey(t.prov, RatesBase(t), RatesSymbols(t))
             holders == {id \in Identities : cacheKey \in DOMAIN w.cache[id]}
             from == IF holders = {} THEN t.prov ELSE CHOOSE id \in holders : TRUE
             cached == getCachedRates(w.cache[from], cacheKey, now)
             w1 == [w EXCEPT !.cache[from] = cached.cache]
             seen == IF cached.data # NoResult THEN "hit"
                     ELSE IF cacheKey \in DOMAIN w.cache[from] THEN "expired"
                          ELSE "absent"
             t1 == [t EXCEPT !.seen = seen,
                             !.symbols = IF t.op = "rates" /\ @ # NoSymbols
                                         THEN Sort(@) ELSE @]
         IN IF cached.data # NoResult
            THEN AfterRates(t1, cached.data, w1)
            ELSE [t |-> [t1 EXCEPT !.pc = "fetch", !.nfetch = 1], w |-> w1]

\* The call on provider t.prov up to its first await: convertCurrency's
\* shortcut, then getLatestRates down to fetch()
Begin(t, w) ==
    IF t.op = "convert" /\ t.base = t.to
    THEN Succeed(t, IdentityConversion(t.prov, t.amount, t.base, t.to, now), w)
    ELSE LET cacheKey == createCacheKey(t.prov, RatesBase(t), RatesSymbols(t))
             cached == getCachedRates(w.cache[t.prov], cacheKey, now)
             w1 == [w EXCEPT !.cache[t.prov] = cached.cache]
             seen == IF cached.data # NoResult THEN "hit"
                     ELSE IF cacheKey \in DOMAIN w.cache[t.prov] THEN "expired"
                          ELSE "absent"
             \* symbols.sort() sorts the caller's array in place
             t1 == [t EXCEPT !.seen = seen,
                             !.symbols = IF t.op = "rates" /\ @ # NoSymbols
                                         THEN Sort(@) ELSE @]
         IN IF cached.data # NoResult
            THEN AfterRates(t1, cached.data, w1)
            ELSE [t |-> [t1 EXCEPT !.pc = "fetch", !.nfetch = 1], w |-> w1]

\* The loop of the facade's catch block making each alternate the active
\* provider before it is attempted
IterateActivatesFirst(t, list, w) ==
    IF list = <<>>
    THEN IF t.op = "autoselect"
         THEN [t |-> Returned(t, [ret |-> FALSE]), w |-> w]
         ELSE [t |-> Unavailable(t, t.err), w |-> w]
    ELSE Begin([t EXCEPT !.prov = Head(list), !.rest = Tail(list),
                         !.tried = Append(@, Head(list)),
                         !.attempt = 0, !.nfetch = 0, !.stale = FALSE,
                         !.resp = "none", !.seen = "none"],
               IF t.op # "autoselect" /\ t.phase = "alt"
               THEN [w EXCEPT !.active = Head(list), !.storage = Head(list)]
               ELSE w)

\* The loop over `list`: the try block (a list of one), the for loop of the
\* facade's catch block, or the for loop of autoSelectProvider
Iterate(t, list, w) ==
    IF list = <<>>
    THEN IF t.op = "autoselect"
         THEN [t |-> Returned(t, [ret |-> FALSE]), w |-> w]
         ELSE [t |-> Unavailable(t, t.err), w |-> w]
    ELSE Begin([t EXCEPT !.prov = Head(list), !.rest = Tail(list),
                         !.tried = Append(@, Head(list)),
                         !.attempt = 0, !.nfetch = 0, !.stale = FALSE,
                         !.resp = "none", !.seen = "none"], w)

\* The facade wrapping the error of the provider that failed last
FailedWrapsLast(t, error, w) ==
    CASE t.op = "autoselect" -> Iterate(t, t.rest, w)
      [] t.op # "autoselect" /\ t.phase = "alt" ->
            Iterate([t EXCEPT !.err = error], t.rest, w)
      [] OTHER ->
            IF t.override = NULL /\ Len(providers) > 1
            THEN LET active == instanceProvider(w.active)
                     otherProviders == Filter(providers, active)
                 IN Iterate([t EXCEPT !.phase = "alt", !.err = error,
                                      !.avail = providers],
                            otherProviders, w)
            ELSE [t |-> Unavailable([t EXCEPT !.avail = providers], error), w |-> w]

\* The facade failing over whether or not an override was given
FailedFailsOver(t, error, w) ==
    CASE t.op = "autoselect" -> Iterate(t, t.rest, w)
      [] t.op # "autoselect" /\ t.phase = "alt" -> Iterate(t, t.rest, w)
      [] OTHER ->
            IF Len(providers) > 1
            THEN LET active == instanceProvider(w.active)
                     otherProviders == Filter(providers, active)
                 IN Iterate([t EXCEPT !.phase = "alt", !.err = error,
                                      !.avail = providers],
                            otherProviders, w)
            ELSE [t |-> Unavailable([t EXCEPT !.avail = providers], error), w |-> w]

\* The provider call of t threw `error`
Failed(t, error, w) ==
    CASE t.op = "autoselect" -> Iterate(t, t.rest, w)
      [] t.op # "autoselect" /\ t.phase = "alt" -> Iterate(t, t.rest, w)
      [] OTHER ->
            \* catch (error) of the facade
            IF t.override = NULL /\ Len(providers) > 1
            THEN LET active == instanceProvider(w.active)
                     otherProviders == Filter(providers, active)
                 IN Iterate([t EXCEPT !.phase = "alt", !.err = error,
                                      !.avail = providers],
                            otherProviders, w)
            ELSE [t |-> Unavailable([t EXCEPT !.avail = providers], error), w |-> w]

\* ------------------------------------------------------------------------
\* Initial state and actions
\* ------------------------------------------------------------------------
Init ==
    /\ providers = <<>>
    /\ activeProvider = NULL
    /\ storage = NULL
    /\ rateCache = [id \in Identities |-> <<>>]
    /\ now = 0
    /\ calls = [c \in CallIds |-> IdleCall]

hasProvider(id) == id \in Range(providers)

\* Apply the result of a step of call c
Apply(c, r) ==
    /\ calls' = [calls EXCEPT ![c] = r.t]
    /\ rateCache' = r.w.cache
    /\ activeProvider' = r.w.active
    /\ storage' = r.w.storage
    /\ UNCHANGED <<providers, now>>

\* The provider the try block of the facade calls: the override when it is
\* initialized, else the active provider; NULL when getActiveProvider throws
Target(override) ==
    IF override # NULL /\ hasProvider(override) THEN override
    ELSE IF activeProvider = NULL \/ ~hasProvider(activeProvider) THEN NULL
         ELSE activeProvider

\* Error('No active currency provider available') of getActiveProvider
NoActiveProviderError ==
    [kind |-> "Error", type |-> "none", code |-> "none", name |-> "Error",
     by |-> NULL, attempt |-> 0]

\* The facade function t is a call of, from its entry to its first await
FacadeCall(t) ==
    IF Target(t.override) # NULL
    THEN Iterate(t, <<Target(t.override)>>, World)
    ELSE Failed(t, NoActiveProviderError, World)

\* initializeProvider making the identity it initializes the active one
initializeProviderActivates(id) ==
    /\ providers' = IF hasProvider(id) THEN providers ELSE Append(providers, id)
    /\ rateCache' = [rateCache EXCEPT ![id] = <<>>]
    /\ activeProvider' = id
    /\ calls' = [c \in CallIds |->
                    IF calls[c].pc \in {"fetch", "wait"} /\ calls[c].prov = id
                    THEN [calls[c] EXCEPT !.stale = TRUE] ELSE calls[c]]
    /\ UNCHANGED <<storage, now>>

\* CurrencyProviderFactory.initializeProvider(id, config)
initializeProvider(id) ==
    /\ providers' = IF hasProvider(id) THEN providers ELSE Append(providers, id)
    /\ rateCache' = [rateCache EXCEPT ![id] = <<>>]
    /\ activeProvider' = IF activeProvider = NULL THEN id ELSE activeProvider
    /\ calls' = [c \in CallIds |->
                    IF calls[c].pc \in {"fetch", "wait"} /\ calls[c].prov = id
                    THEN [calls[c] EXCEPT !.stale = TRUE] ELSE calls[c]]
    /\ UNCHANGED <<storage, now>>

\* setActiveProvider without the check that id is initialized
setActiveProviderUnchecked(id) ==
    /\ activeProvider' = id
    /\ UNCHANGED <<providers, storage, rateCache, now, calls>>

\* CurrencyProviderFactory.setActiveProvider(id); it throws, changing
\* nothing, when id is not initialized
setActiveProvider(id) ==
    /\ hasProvider(id)
    /\ activeProvider' = id
    /\ UNCHANGED <<providers, storage, rateCache, now, calls>>

\* setActiveCurrencyProvider(id) of the facade
setActiveCurrencyProvider(id) ==
    /\ hasProvider(id)
    /\ activeProvider' = id
    /\ storage' = id
    /\ UNCHANGED <<providers, rateCache, now, calls>>

\* getActiveCurrencyProvider() of the facade
getActiveCurrencyProvider ==
    IF activeProvider = NULL \/ ~hasProvider(activeProvider)
    THEN DEFAULT_PROVIDER
    ELSE instanceProvider(activeProvider)

\* getAvailableCurrencyProviders() of the facade
getAvailableCurrencyProviders == providers

\* What a function that returns nothing returns
Void == [void |-> TRUE]

\* setActiveCurrencyProvider saving the preference before it checks that
\* the provider is initialized
SetActiveSavesFirst(t, w) ==
    IF ~hasProvider(t.prov)
    THEN [t |-> NotInitialized(t), w |-> [w EXCEPT !.storage = t.prov]]
    ELSE [t |-> Returned(t, Void),
          w |-> [w EXCEPT !.active = t.prov, !.storage = t.prov]]

\* setActiveCurrencyProvider(t.prov) of the facade: what it returns or
\* throws and what it leaves behind
SetActive(t, w) ==
    IF ~hasProvider(t.prov)
    THEN [t |-> NotInitialized(t), w |-> w]
    ELSE [t |-> Returned(t, Void),
          w |-> [w EXCEPT !.active = t.prov, !.storage = t.prov]]

\* setActiveCurrencyProvider(id) called by c, its outcome kept in the call
\* record
setActiveCurrencyProviderBy(c, id) ==
    /\ calls[c].pc \in {"idle", "done"}
    /\ Apply(c, SetActive([IdleCall EXCEPT !.op = "setActive", !.prov = id,
                                           !.late = calls[c].late], World))

RECURSIVE Keyed(_)
\* initializeCurrencyService initializing every entry of configs
KeyedWithoutKey(configs) == [i \in 1..Len(configs) |-> configs[i].id]

\* The identities initializeCurrencyService initializes: those of the
\* entries whose config has an apiKey, in key order
Keyed(configs) ==
    IF configs = <<>> THEN <<>>
    ELSE IF Head(configs).apiKey THEN <<Head(configs).id>> \o Keyed(Tail(configs))
         ELSE Keyed(Tail(configs))

RECURSIVE Register(_, _)
\* initializeCurrencyService building the provider map anew from ids
RegisterAnew(keys, ids) == ids

\* The keys of the provider map after initializeProvider was called for
\* each of ids
Register(keys, ids) ==
    IF ids = <<>> THEN keys
    ELSE Register(IF Head(ids) \in Range(keys) THEN keys ELSE Append(keys, Head(ids)),
                  Tail(ids))

\* initializeCurrencyService restoring the saved preference without looking
\* whether that provider is initialized
RestoresSavedUnchecked(saved, keys) == saved # NULL

\* initializeCurrencyService: the saved preference is to be restored
RestoresSaved(saved, keys) == saved # NULL /\ saved \in Range(keys)

\* initializeCurrencyService(configs) called by c, up to its return or to
\* the first await of autoSelectProvider
initializeCurrencyService(c, configs) ==
    LET ids == Keyed(configs)
        keys == Register(providers, ids)
        w == [cache |-> [id \in Identities |->
                            IF id \in Range(ids) THEN <<>> ELSE rateCache[id]],
              active |-> IF activeProvider = NULL /\ ids # <<>>
                         THEN Head(ids) ELSE activeProvider,
              storage |-> storage]
        t == [IdleCall EXCEPT !.op = "initialize", !.configs = configs,
                              !.late = calls[c].late]
        r == IF RestoresSaved(storage, keys)
             THEN [t |-> Returned(t, Void), w |-> [w EXCEPT !.active = storage]]
             ELSE Iterate([t EXCEPT !.op = "autoselect", !.avail = keys], keys, w)
    IN /\ calls[c].pc \in {"idle", "done"}
       /\ providers' = keys
       /\ calls' = [k \in CallIds |->
                       IF k = c THEN r.t
                       ELSE IF calls[k].pc \in {"fetch", "wait"}
                               /\ calls[k].prov \in Range(ids)
                            THEN [calls[k] EXCEPT !.stale = TRUE] ELSE calls[k]]
       /\ rateCache' = r.w.cache
       /\ activeProvider' = r.w.active
       /\ storage' = r.w.storage
       /\ UNCHANGED now

\* getLatestExchangeRates(base, symbols, override) called by c
getLatestExchangeRates(c, base, symbols, override) ==
    /\ calls[c].pc \in {"idle", "done"}
    /\ Apply(c, FacadeCall([IdleCall EXCEPT !.op = "rates", !.base = base,
                                            !.symbols = symbols,
                                            !.given = symbols,
                                            !.override = override,
                                            !.late = calls[c].late]))

\* convertCurrency(amount, from, to, override) called by c
convertCurrency(c, amount, from, to, override) ==
    /\ calls[c].pc \in {"idle", "done"}
    /\ Apply(c, FacadeCall([IdleCall EXCEPT !.op = "convert", !.base = from,
                                            !.to = to, !.amount = amount,
                                            !.override = override,
                                            !.late = calls[c].late]))

\* CurrencyProviderFactory.autoSelectProvider() called by c
autoSelectProvider(c) ==
    /\ calls[c].pc \in {"idle", "done"}
    /\ Apply(c, Iterate([IdleCall EXCEPT !.op = "autoselect", !.avail = providers,
                                         !.late = calls[c].late],
                         providers, World))

\* executeWithRetry whose attempt is not ended by the timer: a fetch that
\* never responds is awaited for ever
executeWithRetryUntimed(t, o, jitter) ==
    IF o = "ok"
    THEN LET data == FetchResult(t.prov, RatesBase(t), RatesSymbols(t), now)
             cacheKey == createCacheKey(t.prov, RatesBase(t), RatesSymbols(t))
             w1 == IF t.stale THEN World
                   ELSE [World EXCEPT !.cache[t.prov] =
                            cacheRates(@, cacheKey, data, now)]
         IN AfterRates([t EXCEPT !.resp = o], data, w1)
    ELSE IF o = "timeout"
         THEN [t |-> t, w |-> World]
         ELSE LET error == AttemptError(o, t.prov, t.attempt)
              IN IF RetryGivesUp(error, t.attempt)
                 THEN Failed([t EXCEPT !.resp = o], handleProviderError(error), World)
                 ELSE [t |-> [t EXCEPT !.resp = o, !.pc = "wait",
                                 !.delay = calculateBackoffDelay(t.attempt, jitter)],
                  w |-> World]

\* getLatestRates writing an entry without rates to the cache when
\* executeWithRetry has given up
executeWithRetryCachesFailure(t, o, jitter) ==
    IF o = "ok"
    THEN LET data == FetchResult(t.prov, RatesBase(t), RatesSymbols(t), now)
             cacheKey == createCacheKey(t.prov, RatesBase(t), RatesSymbols(t))
             w1 == IF t.stale THEN World
                   ELSE [World EXCEPT !.cache[t.prov] =
                            cacheRates(@, cacheKey, data, now)]
         IN AfterRates([t EXCEPT !.resp = o], data, w1)
    ELSE LET error == AttemptError(o, t.prov, t.attempt)
             cacheKey == createCacheKey(t.prov, RatesBase(t), RatesSymbols(t))
         IN IF RetryGivesUp(error, t.attempt)
            THEN Failed([t EXCEPT !.resp = o], handleProviderError(error),
                        [World EXCEPT !.cache[t.prov] =
                            cacheRates(@, cacheKey, NoResult, now)])
            ELSE [t |-> [t EXCEPT !.resp = o, !.pc = "wait",
                                 !.delay = calculateBackoffDelay(t.attempt, jitter)],
                  w |-> World]

\* executeWithRetry of call c: the attempt in flight ends with outcome o;
\* jitter is what Math.random() * 1000 gives if a wait follows
executeWithRetry(t, o, jitter) ==
    IF o = "ok"
    THEN LET data == FetchResult(t.prov, RatesBase(t), RatesSymbols(t), now)
             cacheKey == createCacheKey(t.prov, RatesBase(t), RatesSymbols(t))
             w1 == IF t.stale THEN World
                   ELSE [World EXCEPT !.cache[t.prov] =
                            cacheRates(@, cacheKey, data, now)]
         IN AfterRates([t EXCEPT !.resp = o], data, w1)
    ELSE LET error == AttemptError(o, t.prov, t.attempt)
         IN IF RetryGivesUp(error, t.attempt)
            THEN Failed([t EXCEPT !.resp = o], handleProviderError(error), World)
            ELSE [t |-> [t EXCEPT !.resp = o, !.pc = "wait",
                                 !.delay = calculateBackoffDelay(t.attempt, jitter)],
                  w |-> World]

AttemptEnds(c, o, jitter) ==
    /\ calls[c].pc = "fetch"
    /\ Apply(c, executeWithRetry(calls[c], o, jitter))

\* executeWithTimeout of call c: the timer fires before the fetch has
\* settled. The race rejects with the timer's error, which executeWithRetry
\* catches; the fetch stays in flight with nobody awaiting it
TimerFires(c, jitter) ==
    /\ calls[c].pc = "fetch"
    /\ Apply(c, executeWithRetry(
                    [calls[c] EXCEPT !.late = @ \cup {<<calls[c].prov, calls[c].attempt>>}],
                    "timeout", jitter))

\* The fetch that lost its race settling with a result that is written to
\* the cache of its provider
SettleLateCaches(t, x, o, w) ==
    [t |-> [t EXCEPT !.late = @ \ {x}],
     w |-> IF o = "ok"
           THEN [w EXCEPT !.cache[x[1]] =
                    cacheRates(@, createCacheKey(x[1], RatesBase(t), RatesSymbols(t)),
                               FetchResult(x[1], RatesBase(t), RatesSymbols(t), now), now)]
           ELSE w]

\* Promise.race in executeWithTimeout: the fetch x that lost its race
\* settles with outcome o; the race has settled already, so the result or
\* error is dropped
SettleLate(t, x, o, w) ==
    [t |-> [t EXCEPT !.late = @ \ {x}], w |-> w]

\* A fetch of caller c that lost its race settles
LateResult(c, o) ==
    /\ calls[c].late # {}
    /\ \E x \in calls[c].late : Apply(c, SettleLate(calls[c], x, o, World))

\* The backoff wait of call c is over: the next attempt starts
RetryAfterWait(c) ==
    /\ calls[c].pc = "wait"
    /\ calls' = [calls EXCEPT ![c].pc = "fetch", ![c].attempt = @ + 1,
                              ![c].nfetch = @ + 1, ![c].delay = 0]
    /\ UNCHANGED <<providers, activeProvider, storage, rateCache, now>>

\* Time passes
Tick ==
    /\ now < MaxTime
    /\ now' = now + 1
    /\ UNCHANGED <<providers, activeProvider, storage, rateCache, calls>>

Overrides == Identities \cup {NULL}

\* Outcomes of an attempt used where the kind of failure is not the point:
\* a success, a retryable failure and a client-class failure
SomeOutcomes == {"ok", "timeout", "invalid-key"}

\* The registry, autoSelectProvider and the facade over all identities;
\* every request uses the cache key of testConnection; the clock stands still
Next ==
    \/ \E id \in Identities : initializeProvider(id)
    \/ \E id \in Identities : setActiveProvider(id)
    \/ \E id \in Identities : setActiveCurrencyProvider(id)
    \/ \E c \in Callers, override \in Overrides :
            getLatestExchangeRates(c, "USD", NoSymbols, override)
    \/ \E c \in Callers : autoSelectProvider(c)
    \/ \E c \in Callers, o \in SomeOutcomes : AttemptEnds(c, o, 0)
    \/ \E c \in Callers : RetryAfterWait(c)

Spec == Init /\ [][Next]_vars

\* The registry and both functions of the facade over all identities, with
\* and without override; the clock stands still
NextFacade ==
    \/ \E id \in Identities : initializeProvider(id)
    \/ \E id \in Identities : setActiveProvider(id)
    \/ \E id \in Identities : setActiveCurrencyProvider(id)
    \/ \E c \in Callers, override \in Overrides :
            getLatestExchangeRates(c, "USD", <<"EUR">>, override)
    \/ \E c \in Callers, amount \in Amounts, to \in {"USD", "EUR"},
          override \in Overrides :
            convertCurrency(c, amount, "USD", to, override)
    \/ \E c \in Callers, o \in SomeOutcomes : AttemptEnds(c, o, 0)
    \/ \E c \in Callers : RetryAfterWait(c)

FacadeSpec == Init /\ [][NextFacade]_vars

\* One provider, every request and every outcome of an attempt, the clock
\* running
NextProvider ==
    \/ initializeProvider(EXCHANGE_RATE_API)
    \/ \E c \in Callers, symbols \in SymbolArgs :
            getLatestExchangeRates(c, "USD", symbols, NULL)
    \/ \E c \in Callers, amount \in Amounts, to \in Currencies :
            convertCurrency(c, amount, "USD", to, NULL)
    \/ \E c \in Callers, o \in NetOutcomes, jitter \in Jitters :
            AttemptEnds(c, o, jitter)
    \/ \E c \in Callers : RetryAfterWait(c)
    \/ Tick

ProviderSpec == Init /\ [][NextProvider]_vars

\* A session that starts with the preference a previous session saved
InitStored ==
    /\ providers = <<>>
    /\ activeProvider = NULL
    /\ storage \in Identities \cup {NULL}
    /\ rateCache = [id \in Identities |-> <<>>]
    /\ now = 0
    /\ calls = [c \in CallIds |-> IdleCall]

\* Start-up and provider selection: initializeCurrencyService with every
\* configs map of up to two entries, setActiveCurrencyProvider and a facade
\* call that can fail over; the clock stands still
NextService ==
    \/ \E c \in Callers, configs \in ConfigMaps : initializeCurrencyService(c, configs)
    \/ \E c \in Callers, id \in Identities : setActiveCurrencyProviderBy(c, id)
    \/ \E c \in Callers : getLatestExchangeRates(c, "USD", NoSymbols, NULL)
    \/ \E c \in Callers, o \in {"ok", "timeout"} : AttemptEnds(c, o, 0)
    \/ \E c \in Callers : RetryAfterWait(c)

ServiceSpec == InitStored /\ [][NextService]_vars

\* The registry and both functions of the facade, where the network may
\* stay silent for ever: the timers of executeWithTimeout and of wait are
\* setTimeout callbacks, which the event loop runs once they are due
NextLive ==
    \/ \E id \in Identities : initializeProvider(id)
    \/ \E c \in Callers : getLatestExchangeRates(c, "USD", <<"EUR">>, NULL)
    \/ \E c \in Callers, to \in {"USD", "EUR"} : convertCurrency(c, 3, "USD", to, NULL)
    \/ \E c \in Callers, o \in {"ok", "timeout"} : AttemptEnds(c, o, 0)
    \/ \E c \in Callers : RetryAfterWait(c)

LiveSpec ==
    /\ Init /\ [][NextLive]_vars
    /\ \A c \in Callers : WF_vars(AttemptEnds(c, "timeout", 0))
    /\ \A c \in Callers : WF_vars(RetryAfterWait(c))

\* Registries as initializeProvider leaves them: the providers configured,
\* one of them active, nothing cached and no preference saved yet
ConfiguredRegistries ==
    {<<EXCHANGE_RATE_API, "fixer", "openrates">>, <<"fixer", EXCHANGE_RATE_API>>,
     <<EXCHANGE_RATE_API>>}

InitConfigured ==
    /\ providers \in ConfiguredRegistries
    /\ activeProvider \in Range(providers)
    /\ storage = NULL
    /\ rateCache = [id \in Identities |-> <<>>]
    /\ now = 0
    /\ calls = [c \in CallIds |-> IdleCall]

\* Two callers of the facade at a time on a configured registry; the clock
\* stands still
NextConcurrent ==
    \/ \E c \in CallIds : getLatestExchangeRates(c, "USD", <<"EUR">>, NULL)
    \/ \E c \in CallIds, o \in {"ok", "timeout"} : AttemptEnds(c, o, 0)
    \/ \E c \in CallIds : RetryAfterWait(c)

ConcurrentSpec == InitConfigured /\ [][NextConcurrent]_vars

\* Configs maps of one entry that carries an apiKey
LaterConfigs == {m \in ConfigMaps : Len(m) = 1 /\ m[1].apiKey}

\* A configured registry on which initializeCurrencyService is called again
\* with one entry while the facade is in use; the clock stands still
NextLater ==
    \/ \E configs \in LaterConfigs : initializeCurrencyService(2, configs)
    \/ \E id \in Identities : setActiveCurrencyProviderBy(1, id)
    \/ getLatestExchangeRates(1, "USD", NoSymbols, NULL)
    \/ \E c \in CallIds, o \in {"ok", "timeout"} : AttemptEnds(c, o, 0)
    \/ \E c \in CallIds : RetryAfterWait(c)

LaterSpec == InitConfigured /\ [][NextLater]_vars

\* Two callers at a time on the one provider of a registry, every request
\* with the same cache key, the clock running
InitShared == InitConfigured /\ Len(providers) = 1

NextShared ==
    \/ \E c \in CallIds : getLatestExchangeRates(c, "USD", NoSymbols, NULL)
    \/ \E c \in CallIds, o \in {"ok", "timeout"} : AttemptEnds(c, o, 0)
    \/ \E c \in CallIds : RetryAfterWait(c)
    \/ Tick

SharedSpec == InitShared /\ [][NextShared]_vars

\* One caller on a configured registry whose fetches either succeed in time
\* or lose the race to the timer and settle later; the clock stands still
NextTimeout ==
    \/ \E c \in Callers : getLatestExchangeRates(c, "USD", <<"EUR">>, NULL)
    \/ \E c \in Callers : AttemptEnds(c, "ok", 0)
    \/ \E c \in Callers : TimerFires(c, 0)
    \/ \E c \in Callers : RetryAfterWait(c)
    \/ \E c \in Callers, o \in {"ok", "fetch-failed"} : LateResult(c, o)

TimeoutSpec == InitConfigured /\ [][NextTimeout]_vars

\* Two callers on the one provider of a registry asking for the same codes
\* in different orders, every fetch succeeding; the clock running
NextKeys ==
    \/ \E c \in CallIds, symbols \in OrderedSymbolArgs :
            getLatestExchangeRates(c, "USD", symbols, NULL)
    \/ \E c \in CallIds : AttemptEnds(c, "ok", 0)
    \/ Tick

KeySpec == InitShared /\ [][NextKeys]_vars

TypeOK ==
    /\ Range(providers) \subseteq Identities
    /\ activeProvider \in Identities \cup {NULL}
    /\ now \in 0..MaxTime

\* ------------------------------------------------------------------------
\* Properties
\* ------------------------------------------------------------------------
IsFacadeCall(t) == t.op \in {"rates", "convert"}

Finished(t) == t.pc = "done"

Prefix(s, t) == Len(s) <= Len(t) /\ \A i \in 1..Len(s) : s[i] = t[i]

Last(s) == s[Len(s)]

\* What a failover has to try: the provider that failed first, then every
\* other provider that was configured, in registry order
FailoverOrder(t) == <<t.tried[1]>> \o Filter(t.avail, t.tried[1])

\* C1: a facade call without override, made while more than one provider is
\* configured, whose active provider fails tries every other configured
\* provider in registry order until one succeeds, and raises 'currency
\* service unavailable' only after every configured provider was tried.
C1_FailoverTriesEveryOtherProvider ==
    \A c \in CallIds :
        LET t == calls[c]
        IN (IsFacadeCall(t) /\ t.override = NULL /\ Len(t.avail) > 1 /\ t.tried # <<>>)
            => /\ Prefix(t.tried, FailoverOrder(t))
               /\ (Finished(t) /\ t.out.status = "fail") => t.tried = FailoverOrder(t)

\* Outcomes the provider's error mapping gives a client-class code
ClientClassOutcomes ==
    {o \in ApiErrorTypes : isClientError(handleExchangeRateApiError(o, NULL, 0))}

\* C2: an attempt that ends with a client-class error (invalid API key,
\* invalid base currency, unsupported currency) is the last one of its
\* getLatestRates: no backoff wait and no retry follow, the failure is
\* propagated at once.
C2_ClientErrorIsNotRetried ==
    \A c \in CallIds :
        calls[c].resp \in ClientClassOutcomes
            => Finished(calls[c]) /\ calls[c].out.status = "fail"

\* The step starts a call of c
Starts(c) == calls[c].pc \in {"idle", "done"} /\ calls'[c] # calls[c]

\* The step is one of call c and completes it
Completes(c) == calls'[c] # calls[c] /\ Finished(calls'[c])

\* The facade call t returned the result of an alternate provider
FellOver(t) ==
    IsFacadeCall(t) /\ Finished(t) /\ t.out.status = "ok" /\ t.phase = "alt"

\* C3: after a facade call that failed on the active provider and succeeded
\* on the alternate provider B, getActiveProvider() of the facade returns B,
\* the preference store holds B and the next call without override goes to
\* B first.
C3_FallbackIsSticky ==
    [][\A c \in CallIds :
          (Completes(c) /\ FellOver(calls'[c]))
              => /\ getActiveCurrencyProvider' = calls'[c].prov
                 /\ storage' = calls'[c].prov
                 /\ Target(NULL)' = calls'[c].prov]_vars

\* The cache key of the getLatestRates that call t makes on its provider
KeyOf(t) == createCacheKey(t.prov, RatesBase(t), RatesSymbols(t))

\* C4 as stated: a getLatestRates that finds an entry of its key younger
\* than the TTL returns the cached result without a network call, and one
\* that finds the entry expired makes exactly one network call (stated for
\* the calls that met no client-class error, which C2 is about).
C4_OneFetchAfterExpiry ==
    \A c \in CallIds :
        LET t == calls[c]
        IN (t.op = "rates" /\ t.resp \notin ClientClassOutcomes)
            => /\ t.seen = "hit" => Finished(t) /\ t.out.status = "ok" /\ t.nfetch = 0
               /\ t.seen = "expired" => t.nfetch = 1

\* C4 amended: a getLatestRates issued while now - cachedAt < ttl returns
\* the cached result itself, makes no network call and leaves the cache as
\* it is; one issued when now - cachedAt >= ttl evicts the entry and makes a
\* network call, the only one if that attempt succeeds and one of at most
\* maxRetries + 1 otherwise.
C4_CachedWithinTtl ==
    /\ [][\A c \in CallIds :
            (Starts(c) /\ calls'[c].op = "rates" /\ calls'[c].tried # <<>>)
                => LET t == calls'[c]
                       cache == rateCache[t.prov]
                   IN IF KeyOf(t) \in DOMAIN cache
                      THEN IF now - cache[KeyOf(t)].timestamp < cache[KeyOf(t)].ttl
                           THEN /\ Finished(t) /\ t.out.status = "ok"
                                /\ t.out.value = cache[KeyOf(t)].data
                                /\ t.nfetch = 0
                                /\ rateCache' = rateCache
                           ELSE /\ t.pc = "fetch" /\ t.nfetch = 1
                                /\ KeyOf(t) \notin DOMAIN rateCache'[t.prov]
                      ELSE t.pc = "fetch" /\ t.nfetch = 1]_vars
    /\ [](\A c \in CallIds :
            LET t == calls[c]
            IN (t.op = "rates" /\ t.seen = "expired")
                => /\ t.nfetch >= 1 /\ t.nfetch <= maxRetries + 1
                   /\ (t.resp = "ok" /\ t.attempt = 0) => t.nfetch = 1)

\* A call found the entry of its key expired, fetched again and returned
C4_RefetchedAfterExpiry ==
    \E c \in CallIds :
        /\ calls[c].op = "rates" /\ calls[c].seen = "expired"
        /\ Finished(calls[c]) /\ calls[c].out.status = "ok"
        /\ KeyOf(calls[c]) \in DOMAIN rateCache[calls[c].prov]

\* C5: one getLatestRates that misses the cache makes at most maxRetries + 1
\* fetch attempts; an attempt that succeeds ends it with that result; when
\* every attempt has failed, the error propagated is that of the last one.
C5_AttemptsAreBounded ==
    \A c \in CallIds :
        LET t == calls[c]
        IN t.op = "rates"
            => /\ t.nfetch <= maxRetries + 1
               /\ t.pc \in {"fetch", "wait"} => t.nfetch = t.attempt + 1
               /\ t.resp = "ok"
                    => /\ Finished(t) /\ t.out.status = "ok"
                       /\ t.out.value.provider = instanceProvider(t.prov)
                       /\ t.out.value.base = t.base
                       /\ KeyOf(t) \in DOMAIN rateCache[t.prov]
                            => rateCache[t.prov][KeyOf(t)].data = t.out.value
               /\ (Finished(t) /\ t.resp \notin {"ok", "none"})
                    => /\ t.out.status = "fail"
                       /\ t.out.cause.by = t.prov
                       /\ t.out.cause.attempt = t.nfetch - 1

\* A call failed after maxRetries + 1 attempts
C5_RetriesExhausted ==
    \E c \in CallIds :
        /\ calls[c].op = "rates" /\ Finished(calls[c])
        /\ calls[c].out.status = "fail"
        /\ calls[c].nfetch = maxRetries + 1
        /\ maxRetries > 0

Direct(t) ==
    IsFacadeCall(t) /\ t.override # NULL /\ t.tried # <<>> /\ t.tried[1] = t.override

\* C7: a facade call whose override names an initialized provider is sent
\* to that provider only, and no step of it changes the active provider or
\* the preference store, whether it succeeds or fails.
C7_OverrideIsDirect ==
    [][\A c \in CallIds :
          (calls'[c] # calls[c] /\ Direct(calls'[c]))
              => /\ calls'[c].tried = <<calls'[c].override>>
                 /\ activeProvider' = activeProvider
                 /\ storage' = storage]_vars

\* A call with override failed while another provider was configured and
\* active
C7_OverrideFailedAlone ==
    \E c \in CallIds :
        /\ Direct(calls[c]) /\ Finished(calls[c])
        /\ calls[c].out.status = "fail"
        /\ Len(providers) > 1
        /\ activeProvider # calls[c].override

\* C8: in every reachable state of the registry the active identity is
\* unset or a key of the provider map.
C8_ActiveIsRegistered ==
    activeProvider = NULL \/ hasProvider(activeProvider)

\* A failover has made its alternate provider the active one
C8_ActiveAfterFailover ==
    \E c \in CallIds :
        /\ FellOver(calls[c])
        /\ activeProvider = calls[c].prov
        /\ Len(providers) > 1

\* C9: autoSelectProvider tests the initialized providers in insertion
\* order; the first testConnection that succeeds ends it: that provider is
\* activated, true is returned and no later provider is tested; when every
\* testConnection fails it returns false, and no step of it but the
\* activation changes the active provider.
C9_AutoSelectFirstWorking ==
    [][\A c \in CallIds :
          (calls'[c] # calls[c] /\ calls'[c].op = "autoselect")
              => LET t == calls'[c]
                     works == t.resp = "ok" \/ t.seen = "hit"
                 IN /\ t.tried \o t.rest = t.avail
                    /\ works => Finished(t)
                    /\ IF Finished(t) /\ works
                       THEN /\ t.out.value = [ret |-> TRUE]
                            /\ activeProvider' = Last(t.tried)
                       ELSE /\ activeProvider' = activeProvider
                            /\ Finished(t) => /\ t.out.value = [ret |-> FALSE]
                                              /\ t.tried = t.avail]_vars

\* autoSelectProvider returned true for the second of three providers
C9_SecondOfThreeSelected ==
    \E c \in CallIds :
        /\ calls[c].op = "autoselect" /\ Finished(calls[c])
        /\ calls[c].out.value = [ret |-> TRUE]
        /\ Len(calls[c].tried) = 2 /\ Len(calls[c].rest) = 1
        /\ activeProvider = calls[c].tried[2]

C11_SetActiveChecksFirst ==
    [][\A c \in CallIds :
          (Starts(c) /\ calls'[c].op = "setActive")
              => LET t == calls'[c]
                 IN /\ Finished(t)
                    /\ IF hasProvider(t.prov)
                       THEN /\ t.out.status = "ok"
                            /\ activeProvider' = t.prov
                            /\ storage' = t.prov
                       ELSE /\ t.out.status = "fail"
                            /\ activeProvider' = activeProvider
                            /\ storage' = storage
                    /\ providers' = providers]_vars

\* setActiveProvider failed for an identity that is not initialized while
\* another provider is active and a preference is saved
C11_RejectedWhileConfigured ==
    \E c \in CallIds :
        /\ calls[c].op = "setActive" /\ Finished(calls[c])
        /\ calls[c].out.status = "fail"
        /\ ~hasProvider(calls[c].prov)
        /\ activeProvider # NULL
        /\ storage # NULL /\ storage # calls[c].prov

\* The call t is one of initializeCurrencyService
IsInitialize(t) == t.configs # NoConfigs

\* C12: initialize(configs) initializes every provider configured with an
\* apiKey; then, if a saved preference exists and names a provider that is
\* initialized in the registry, that provider is active when initialize
\* completes, which it does at once, no testConnection having been run;
\* otherwise autoSelectProvider is run over the available providers.
C12_InitializeRestoresPreference ==
    [][\A c \in CallIds :
          (Starts(c) /\ IsInitialize(calls'[c]))
              => LET t == calls'[c]
                     configured == {t.configs[i].id : i \in
                                       {j \in 1..Len(t.configs) : t.configs[j].apiKey}}
                 IN /\ Range(providers') = Range(providers) \cup configured
                    /\ IF storage # NULL /\ storage \in Range(providers')
                       THEN /\ Finished(t) /\ t.out.status = "ok"
                            /\ activeProvider' = storage
                            /\ t.tried = <<>> /\ t.nfetch = 0
                       ELSE /\ t.op = "autoselect"
                            /\ t.avail = providers'
                            /\ IF providers' = <<>>
                               THEN Finished(t) /\ t.out.value = [ret |-> FALSE]
                               ELSE t.tried = <<providers'[1]>>
                    /\ storage' = storage]_vars

\* initialize restored a saved preference that is not the provider the
\* registry made active by default
C12_PreferenceRestored ==
    \E c \in CallIds :
        /\ calls[c].op = "initialize" /\ Finished(calls[c])
        /\ Len(Keyed(calls[c].configs)) > 1
        /\ storage # NULL /\ activeProvider = storage
        /\ providers[1] # storage

\* The step is one call c takes itself (not the replacement, by
\* initializeProvider, of the instance it is calling)
StepOf(c) ==
    /\ calls'[c] # calls[c]
    /\ calls'[c] # [calls[c] EXCEPT !.stale = TRUE]

\* The facade call t has failed over and its last alternate has failed
AllFailed(t) ==
    /\ IsFacadeCall(t) /\ Finished(t)
    /\ t.phase = "alt" /\ t.rest = <<>>
    /\ t.resp \notin {"ok", "none"}

\* C13: a facade call whose active provider and alternates all fail ends in
\* failure, and no step of a facade call other than the return of a
\* successful alternate changes the active provider or the saved
\* preference: after the failed call both are what they were before it.
C13_FailedCallChangesNothing ==
    [][\A c \in CallIds :
          (StepOf(c) /\ IsFacadeCall(calls'[c]))
              => /\ AllFailed(calls'[c]) => calls'[c].out.status = "fail"
                 /\ ~FellOver(calls'[c])
                      => /\ activeProvider' = activeProvider
                         /\ storage' = storage]_vars

\* A failover ended in failure while a preference was saved
C13_FailoverFailed ==
    \E c \in CallIds :
        /\ AllFailed(calls[c])
        /\ calls[c].out.status = "fail"
        /\ Len(calls[c].tried) > 1
        /\ storage # NULL /\ activeProvider # NULL

\* C14: every facade call eventually completes, with a result or with a
\* failure, also when no fetch ever responds: the timer ends each attempt,
\* a provider gets at most maxRetries + 1 attempts and the providers to try
\* are finitely many.
C14_EveryCallCompletes ==
    \A c \in Callers :
        (IsFacadeCall(calls[c]) /\ calls[c].pc \in {"fetch", "wait"})
            ~> (IsFacadeCall(calls[c]) /\ Finished(calls[c]))

\* A facade call failed after every attempt on two providers timed out
C14_CompletedByTimeouts ==
    \E c \in CallIds :
        /\ IsFacadeCall(calls[c]) /\ Finished(calls[c])
        /\ calls[c].out.status = "fail"
        /\ Len(calls[c].tried) > 1
        /\ calls[c].resp = "timeout"
        /\ calls[c].nfetch = maxRetries + 1

\* No provider occurs twice in s
NoRepeat(s) == \A i, j \in 1..Len(s) : s[i] = s[j] => i = j

\* The providers that failed in the facade call t, which fell over
FailedIn(t) == {t.tried[i] : i \in 1..(Len(t.tried) - 1)}

\* C15 as stated: after two concurrent facade calls that both failed over
\* have completed, the active provider is one whose fallback attempt
\* succeeded and never a provider that failed in those calls (stated for
\* calls that tried no provider twice, which C1 is about).
C15_ActiveNeverFailed ==
    (\A c \in CallIds : FellOver(calls[c]) /\ NoRepeat(calls[c].tried))
        => /\ \E c \in CallIds : activeProvider = calls[c].prov
           /\ \A c \in CallIds : activeProvider \notin FailedIn(calls[c])

\* C15 amended: the return of a fallback that succeeded makes its provider
\* the active one and the saved preference, and nothing else the calls do
\* changes the active provider: after two concurrent calls that both
\* failed over, the active provider is the one whose fallback returned
\* last, whether or not it failed in the other call.
C15_LastFallbackWins ==
    /\ [][\A c \in CallIds :
            (Completes(c) /\ FellOver(calls'[c]))
                => /\ activeProvider' = calls'[c].prov
                   /\ storage' = calls'[c].prov]_vars
    /\ [][activeProvider' # activeProvider
            => \E c \in CallIds : Completes(c) /\ FellOver(calls'[c])]_vars
    /\ []((\A c \in CallIds : FellOver(calls[c]))
            => \E c \in CallIds : activeProvider = calls[c].prov)

\* Two calls have failed over to different providers and the active one is
\* a provider that failed in the other call
C15_BothFellOver ==
    /\ \A c \in CallIds : FellOver(calls[c]) /\ NoRepeat(calls[c].tried)
    /\ calls[1].prov # calls[2].prov
    /\ \E c, d \in CallIds :
          activeProvider = calls[c].prov /\ activeProvider \in FailedIn(calls[d])

\* The getLatestRates of call t fetched from the network and returned
Fetched(t) == t.op = "rates" /\ Finished(t) /\ t.resp = "ok"

\* C16: two concurrent getLatestRates calls on one provider that both miss
\* the cache for one key may both fetch; each returns the result of its own
\* fetch and writes it to the cache as it returns, so that after both have
\* completed the cache holds one entry for the key, that of the call which
\* finished last.
C16_LastWriterWins ==
    /\ [][\A c \in CallIds :
            (Completes(c) /\ Fetched(calls'[c]))
                => LET t == calls'[c]
                   IN /\ t.out.value.timestamp = now
                      /\ t.out.value.base = t.base
                      /\ KeyOf(t) \in DOMAIN rateCache'[t.prov]
                      /\ rateCache'[t.prov][KeyOf(t)] =
                            [data |-> t.out.value, timestamp |-> now, ttl |-> cacheTtl]]_vars
    /\ []((\A c \in CallIds : Fetched(calls[c]))
            => LET cache == rateCache[calls[1].prov]
                   key == KeyOf(calls[1])
               IN /\ DOMAIN cache = {key}
                  /\ cache[key].data \in {calls[c].out.value : c \in CallIds}
                  /\ \A c \in CallIds :
                        cache[key].timestamp >= calls[c].out.value.timestamp)

\* Two calls that both found no entry for the key have fetched at different
\* times and returned different results; the cache holds the later one
C16_BothFetched ==
    /\ \A c \in CallIds : Fetched(calls[c]) /\ calls[c].seen = "absent"
    /\ calls[1].prov = calls[2].prov
    /\ calls[1].out.value # calls[2].out.value
    /\ \E c \in CallIds :
          rateCache[calls[c].prov][KeyOf(calls[c])].data = calls[c].out.value

\* C17: for from # to a provider's convertCurrency gets the rates with
\* getLatestRates(from, [to]); when they hold a rate for `to` it returns
\* that rate and convertedAmount = amount * rate; when they hold none it
\* fails with an error the caller can recognise as 'unsupported currency'.
C17_UnsupportedCurrencyIsRecognisable ==
    \A c \in CallIds :
        LET t == calls[c]
        IN (t.op = "convert" /\ t.base # t.to /\ Finished(t)
              /\ (t.resp = "ok" \/ t.seen = "hit"))
            => IF t.to \in DOMAIN ConversionRates
               THEN /\ t.out.status = "ok"
                    /\ t.out.value.rate = ConversionRates[t.to]
                    /\ t.out.value.convertedAmount = t.amount * ConversionRates[t.to]
               ELSE /\ t.out.status = "fail"
                    /\ t.out.cause.code = "unsupported_currency"

\* C18: a facade call whose override names a provider that is not
\* initialized behaves like the call without override: it is sent to the
\* active provider and, when that fails while more than one provider is
\* configured, it fails over to the remaining providers before it fails.
C18_UnknownOverrideFailsOver ==
    \A c \in CallIds :
        LET t == calls[c]
        IN (IsFacadeCall(t) /\ t.override # NULL /\ t.tried # <<>>
              /\ t.tried[1] # t.override
              /\ Finished(t) /\ t.out.status = "fail" /\ Len(t.avail) > 1)
            => Len(t.tried) > 1

\* The step is the timer of call c firing before its fetch has settled
TimesOut(c) ==
    /\ calls[c].pc = "fetch"
    /\ calls'[c].late # calls[c].late
    /\ calls[c].late \subseteq calls'[c].late

\* The step is a fetch of caller c settling after it lost its race
Settles(c) == \E x \in calls[c].late : calls'[c].late = calls[c].late \ {x}

\* C19: an attempt whose timer fires before its fetch has settled counts as
\* a failure that is retried: while attempts remain, the call waits and
\* then makes one more attempt on the same provider; the result the fetch
\* delivers later is neither returned to a caller nor written to a cache.
C19_TimeoutIsRetried ==
    /\ [][\A c \in CallIds :
            TimesOut(c)
                => /\ rateCache' = rateCache
                   /\ IF calls[c].attempt < maxRetries
                      THEN /\ calls'[c].pc = "wait"
                           /\ calls'[c].resp = "timeout"
                           /\ calls'[c].prov = calls[c].prov
                           /\ calls'[c].attempt = calls[c].attempt
                      ELSE calls'[c].pc # "wait"]_vars
    /\ [][\A c \in CallIds :
            (calls[c].pc = "wait" /\ StepOf(c) /\ ~Settles(c))
                => /\ calls'[c].pc = "fetch"
                   /\ calls'[c].prov = calls[c].prov
                   /\ calls'[c].attempt = calls[c].attempt + 1
                   /\ calls'[c].nfetch = calls[c].nfetch + 1]_vars
    /\ [][\A c \in CallIds :
            Settles(c)
                => /\ rateCache' = rateCache
                   /\ calls'[c].out = calls[c].out
                   /\ calls'[c].pc = calls[c].pc
                   /\ activeProvider' = activeProvider
                   /\ storage' = storage]_vars

\* A call whose first attempt timed out has returned the result of its
\* second attempt, and the fetch of the first one has settled since
C19_RetriedAfterTimeout ==
    \E c \in CallIds :
        /\ calls[c].op = "rates" /\ Finished(calls[c])
        /\ calls[c].out.status = "ok"
        /\ calls[c].resp = "ok" /\ calls[c].attempt = 1 /\ calls[c].nfetch = 2
        /\ calls[c].late = {}

\* The keys some cache holds before or after the step
CacheKeys == UNION {DOMAIN rateCache[id] \cup DOMAIN rateCache'[id] : id \in Identities}

\* The entry of key in the cache of id is new or changed in this step
Written(id, key) ==
    /\ key \in DOMAIN rateCache'[id]
    /\ key \in DOMAIN rateCache[id] => rateCache'[id][key] # rateCache[id][key]

\* The entry of key in the cache of id is gone after this step
Removed(id, key) ==
    key \in DOMAIN rateCache[id] /\ key \notin DOMAIN rateCache'[id]

\* C20: an entry of a provider's cache is written only in the step in which
\* a getLatestRates for its key returns the result of a fetch that
\* succeeded, with that result, the time of the write and the configured
\* TTL; a step of a call whose attempt failed adds no entry and leaves
\* every unexpired entry as it is; an entry disappears only when a lookup
\* finds it expired or when the provider instance is replaced.
C20_CacheWrittenOnSuccessOnly ==
    [][\A id \in Identities : \A key \in CacheKeys :
          /\ Written(id, key)
               => \E c \in CallIds :
                     LET t == calls'[c]
                     IN /\ StepOf(c) /\ calls[c].pc = "fetch"
                        /\ t.resp = "ok" /\ t.prov = id /\ KeyOf(t) = key
                        /\ Finished(t)
                        /\ rateCache'[id][key].ttl = cacheTtl
                        /\ rateCache'[id][key].timestamp = now
                        /\ rateCache'[id][key].data.rates \in
                              {[s \in S |-> ConversionRates[s]] :
                                  S \in SUBSET DOMAIN ConversionRates}
                        /\ rateCache'[id][key].data.base = RatesBase(t)
          /\ Removed(id, key)
               => \/ /\ now - rateCache[id][key].timestamp >= rateCache[id][key].ttl
                     /\ \E c \in CallIds :
                           /\ StepOf(c) /\ calls'[c].seen = "expired"
                           /\ KeyOf(calls'[c]) = key
                  \/ \A c \in CallIds : ~StepOf(c)
          /\ \A c \in CallIds :
               (StepOf(c) /\ calls[c].pc = "fetch" /\ calls'[c].resp # "ok")
                    => rateCache' = rateCache]_vars

\* A getLatestRates has failed after its retries while the cache of its
\* provider holds an unexpired entry under another key
C20_FailedBesideCachedEntry ==
    \E c \in CallIds :
        LET t == calls[c]
        IN /\ t.op = "rates" /\ Finished(t) /\ t.out.status = "fail"
           /\ t.nfetch = maxRetries + 1
           /\ KeyOf(t) \notin DOMAIN rateCache[t.prov]
           /\ \E key \in DOMAIN rateCache[t.prov] :
                 now - rateCache[t.prov][key].timestamp < rateCache[t.prov][key].ttl

\* Outcomes the provider's error mapping gives the kind authentication or
\* validation
ClientKindOutcomes ==
    {o \in ApiErrorTypes :
        handleExchangeRateApiError(o, NULL, 0).type \in {"authentication", "validation"}}

\* Outcomes that are failures of kind network
NetworkKindOutcomes == {"timeout", "fetch-failed", "http-error"}

\* C21: an attempt that fails with an error the provider's mapping gives the
\* kind authentication or validation is the only attempt of its
\* getLatestRates, which fails at once; a getLatestRates that fails with an
\* error of kind network has made maxRetries + 1 attempts.
C21_ClientKindsAreNotRetried ==
    \A c \in CallIds :
        LET t == calls[c]
        IN /\ t.resp \in ClientKindOutcomes
                => Finished(t) /\ t.out.status = "fail" /\ t.nfetch = 1
           /\ (t.resp \in NetworkKindOutcomes /\ Finished(t))
                => t.out.status = "fail" /\ t.nfetch = maxRetries + 1

\* How often x occurs in s
Count(s, x) == Cardinality({i \in 1..Len(s) : s[i] = x})

\* s and t list the same codes, in whatever order
IsPermutation(s, t) ==
    Len(s) = Len(t) /\ \A x \in Range(s) \cup Range(t) : Count(s, x) = Count(t, x)

\* The cache key, made of provider, base and symbols part, is one a
\* request for base and the symbols `given` is to use
SameRequest(key, base, given) ==
    /\ key[2] = base
    /\ LET part == SubSeq(key, 3, Len(key))
       IN IF given = NoSymbols THEN part = <<"all">>
          ELSE part # <<"all">> /\ IsPermutation(part, given)

\* C22: a getLatestRates is a cache hit exactly when the cache of its
\* provider holds an unexpired entry stored for the same base and the same
\* symbols in any order, and it then returns that entry's data; a request
\* without symbols shares its entry with no request that lists symbols.
C22_KeyIgnoresSymbolOrder ==
    [][\A c \in CallIds :
          (Starts(c) /\ calls'[c].op = "rates" /\ calls'[c].tried # <<>>)
              => LET t == calls'[c]
                     cache == rateCache[t.prov]
                     matching == {key \in DOMAIN cache :
                                    /\ SameRequest(key, t.base, t.given)
                                    /\ now - cache[key].timestamp < cache[key].ttl}
                 IN /\ Cardinality(matching) <= 1
                    /\ IF matching # {}
                       THEN /\ t.seen = "hit" /\ Finished(t) /\ t.nfetch = 0
                            /\ \A key \in matching : t.out.value = cache[key].data
                       ELSE t.seen # "hit" /\ t.pc = "fetch"]_vars

\* A request for USD and EUR was served from the entry that a request for
\* EUR and USD has stored, while an entry for the request without symbols
\* is in the cache too
C22_HitInOtherOrder ==
    /\ calls[1].given = <<"USD", "EUR">> /\ Fetched(calls[1])
    /\ calls[2].given = <<"EUR", "USD">> /\ calls[2].seen = "hit"
    /\ Finished(calls[2]) /\ calls[2].out.value = calls[1].out.value
    /\ \E key \in DOMAIN rateCache[calls[1].prov] :
          SameRequest(key, "USD", NoSymbols)

\* The step takes call c to a provider: its first one or the next of a loop
Reaches(c) ==
    /\ StepOf(c)
    /\ calls'[c].tried # <<>>
    /\ calls[c].pc \in {"idle", "done"} \/ calls'[c].tried # calls[c].tried

\* C23: a call that reaches provider B is served from the cache only when
\* B's own cache holds the key, and fetches from the network when B's cache
\* does not hold it, whatever the caches of the other providers hold; a
\* step of a call changes no cache but that of the provider it is calling.
C23_CachesAreNotShared ==
    /\ [][\A c \in CallIds :
            (Reaches(c) /\ IsFacadeCall(calls'[c]))
                => LET t == calls'[c]
                       own == rateCache[t.prov]
                   IN /\ t.seen = "hit"
                           => /\ KeyOf(t) \in DOMAIN own
                              /\ t.out.value = own[KeyOf(t)].data
                      /\ KeyOf(t) \notin DOMAIN own
                           => t.pc = "fetch" /\ t.nfetch = 1]_vars
    /\ [][\A c \in CallIds : \A id \in Identities :
            (StepOf(c) /\ rateCache'[id] # rateCache[id])
                => id \in {calls[c].prov, calls'[c].prov}]_vars

\* A call has failed over from A to B and fetched from the network on B
\* while A's cache holds the key
C23_FetchedBesideCachedProvider ==
    \E c \in CallIds :
        LET t == calls[c]
        IN /\ FellOver(t) /\ t.resp = "ok" /\ t.seen = "absent"
           /\ t.tried[1] # t.prov
           /\ KeyOf(t) \in DOMAIN rateCache[t.tried[1]]

\* Before retry number k the provider waits min(initialRetryDelay * 2^k +
\* jitter, maxRetryDelay) with a jitter below the limit, which is at most
\* maxRetryDelay; the attempt number grows only by the end of a wait, by
\* one; no wait follows the final attempt
BackoffWaits ==
    [][\A c \in CallIds :
        StepOf(c)
            => LET s == calls[c]
                   t == calls'[c]
               IN /\ (s.pc = "fetch" /\ t.pc = "wait")
                        => /\ \E jitter \in Jitters :
                                t.delay = Min(initialRetryDelay * 2^(s.attempt) + jitter,
                                              maxRetryDelay)
                           /\ t.delay <= maxRetryDelay
                           /\ t.attempt = s.attempt
                  /\ t.attempt > s.attempt
                        => /\ s.pc = "wait" /\ t.pc = "fetch"
                           /\ t.attempt = s.attempt + 1
                  /\ (s.pc = "fetch" /\ s.attempt >= maxRetries)
                        => t.pc # "wait"]_vars

\* C24: before retry number k the provider waits min(initialRetryDelay * 2^k
\* + jitter, maxRetryDelay) with 0 <= jitter < the jitter limit, never more
\* than maxRetryDelay; exactly one wait separates two consecutive attempts;
\* no wait follows the final attempt, and none follows an attempt that
\* failed with a client error (kind authentication or validation).
C24_BackoffBetweenAttempts ==
    /\ BackoffWaits
    /\ [][\A c \in CallIds :
            (StepOf(c) /\ calls[c].pc = "fetch"
                /\ calls'[c].resp \in ClientKindOutcomes)
                => calls'[c].pc # "wait"]_vars

\* C25: a step of initializeProvider(id) makes id the active provider when
\* there is none and leaves the active provider as it is when there is one,
\* whether that is id or another identity; when id is initialized already
\* the order of the available providers stays as it is and id gets a new
\* instance (with an empty cache); otherwise id is added at the end; the
\* instances of the other identities are left alone.
C25_InitializeKeepsActiveAndOrder ==
    [][\A id \in Identities :
        initializeProvider(id)
            => /\ activeProvider = NULL => activeProvider' = id
               /\ activeProvider # NULL => activeProvider' = activeProvider
               /\ hasProvider(id) => providers' = providers
               /\ ~hasProvider(id) => providers' = Append(providers, id)
               /\ rateCache'[id] = <<>>
               /\ \A other \in Identities \ {id} :
                        rateCache'[other] = rateCache[other]]_vars

\* The first of three providers was initialized again while a fetch on it
\* was in flight and the second provider was active: the order and the
\* active provider are as before and the first provider's cache is empty
C25_ReinitializedInPlace ==
    \E c \in CallIds :
        /\ calls[c].stale /\ calls[c].pc = "fetch"
        /\ Len(providers) = 3
        /\ calls[c].prov = providers[1]
        /\ activeProvider = providers[2]
        /\ rateCache[providers[1]] = <<>>

\* C26: once initialize(configs) has completed, at least one entry of
\* configs carrying an apiKey, the registry has an active provider, which
\* is one of the available providers, also when every testConnection
\* failed; initialize makes every identity configured with an apiKey
\* available and none of those configured without one.
C26_InitializeLeavesActiveProvider ==
    /\ [](\A c \in CallIds :
            LET t == calls[c]
            IN (IsInitialize(t) /\ Finished(t)
                    /\ \E i \in 1..Len(t.configs) : t.configs[i].apiKey)
                => activeProvider # NULL /\ hasProvider(activeProvider))
    /\ [][\A c \in CallIds :
            (Starts(c) /\ IsInitialize(calls'[c]))
                => \A i \in 1..Len(calls'[c].configs) :
                      LET e == calls'[c].configs[i]
                      IN /\ e.apiKey => e.id \in Range(providers')
                         /\ (~e.apiKey /\ ~hasProvider(e.id))
                                => e.id \notin Range(providers')]_vars

\* initialize has completed with every testConnection failed: the first
\* identity configured with an apiKey is active and the identity
\* configured without one is not available
C26_ActiveThoughNoneWorks ==
    \E c \in CallIds :
        LET t == calls[c]
        IN /\ IsInitialize(t) /\ Finished(t)
           /\ t.op = "autoselect" /\ t.resp = "timeout" /\ t.rest = <<>>
           /\ Len(t.configs) = 2
           /\ t.configs[1].apiKey /\ ~t.configs[2].apiKey
           /\ activeProvider = t.configs[1].id
           /\ providers = <<t.configs[1].id>>

\* C27: a call that is served from the cache is served an entry of its
\* provider's cache with now - timestamp < ttl at that moment, and gets that
\* entry's data; a call that found the entry of its key expired and whose
\* refetch has not succeeded leaves no entry for the key, and fails when
\* its attempts are used up.
C27_NeverServesStaleData ==
    /\ [][\A c \in CallIds :
            (Reaches(c) /\ IsFacadeCall(calls'[c]) /\ calls'[c].seen = "hit")
                => LET t == calls'[c]
                       cache == rateCache[t.prov]
                   IN /\ KeyOf(t) \in DOMAIN cache
                      /\ now - cache[KeyOf(t)].timestamp < cache[KeyOf(t)].ttl
                      /\ t.op = "rates" => t.out.value = cache[KeyOf(t)].data
                      /\ t.nfetch = 0]_vars
    /\ [](\A c \in CallIds :
            LET t == calls[c]
            IN (IsFacadeCall(t) /\ t.seen = "expired" /\ t.resp # "ok")
                => /\ KeyOf(t) \notin DOMAIN rateCache[t.prov]
                   /\ Finished(t) => t.out.status = "fail")

\* A call found the entry of its key expired, its refetch failed on every
\* attempt, the call failed and the cache holds no entry for the key
C27_FailedRefetchLeavesNoEntry ==
    \E c \in CallIds :
        LET t == calls[c]
        IN /\ t.op = "rates" /\ t.seen = "expired"
           /\ Finished(t) /\ t.out.status = "fail"
           /\ t.nfetch = maxRetries + 1
           /\ KeyOf(t) \notin DOMAIN rateCache[t.prov]

\* The failover list of the facade call t: the alternates it has tried and
\* those it has still to try
FailoverList(t) == Range(Tail(t.tried)) \cup Range(t.rest)

\* C28: in every interleaving of concurrent facade calls, the failover list
\* of a call that has failed over does not contain the provider whose
\* failure triggered the failover and contains every other configured
\* provider, and the call has tried no provider twice.
C28_FailoverListExcludesFailedProvider ==
    \A c \in CallIds :
        LET t == calls[c]
        IN (IsFacadeCall(t) /\ t.phase = "alt")
            => /\ t.tried[1] \notin FailoverList(t)
               /\ Range(t.avail) \ {t.tried[1]} \subseteq FailoverList(t)
               /\ NoRepeat(t.tried)

\* C29: whenever a provider has been initialized, under whatever identity,
\* getActiveProvider() of the facade returns the registry's active key, and
\* that identity is one of getAvailableProviders().
C29_FacadeReportsActiveKey ==
    providers # <<>>
        => /\ getActiveCurrencyProvider = activeProvider
           /\ getActiveCurrencyProvider \in Range(getAvailableCurrencyProviders)

\* C30: no step removes a provider from the registry or changes the order
\* of those it holds, so that every provider that was available before an
\* initialize(configs) is available after it, whether or not configs names
\* it; the failover of a facade call goes over the registry as it is when
\* the failure is caught, the providers of earlier initializations included.
C30_RegistryOnlyGrows ==
    /\ [][Prefix(providers, providers')]_vars
    /\ [][\A c \in CallIds :
            (Starts(c) /\ IsInitialize(calls'[c]))
                => /\ Range(providers) \subseteq Range(providers')
                   /\ activeProvider # NULL => hasProvider(activeProvider)']_vars
    /\ [][\A c \in CallIds :
            (StepOf(c) /\ IsFacadeCall(calls'[c])
                /\ calls[c].phase = "primary" /\ calls'[c].phase = "alt")
                => /\ calls'[c].avail = providers
                   /\ FailoverList(calls'[c]) =
                        Range(Filter(providers, instanceProvider(activeProvider)))]_vars

\* A later initialize that names only openrates has completed, and a facade
\* call that failed when openrates was available already has fallen over
\* to a provider of the earlier configuration, which is now active
C30_OmittedProviderServesFailover ==
    LET init == calls[2]
        t == calls[1]
    IN /\ IsInitialize(init) /\ Finished(init)
       /\ init.configs = <<[id |-> "openrates", apiKey |-> TRUE]>>
       /\ FellOver(t) /\ t.prov = "fixer"
       /\ "openrates" \in Range(t.avail)
       /\ activeProvider = "fixer"
       /\ providers = <<"fixer", EXCHANGE_RATE_API, "openrates">>

====
